---- MODULE Spec2Model ----
(***************************************************************************)
(* Asynchronous transaction-settlement pipeline of go-gateway-api.         *)
(*                                                                         *)
(* One request handler runs Submit (InvoiceService), one background task   *)
(* runs KafkaConsumer.Consume; both credit accounts through                *)
(* AccountService.UpdateBalance.  Every repository call is one atomic step *)
(* and may fail; the code between two repository calls is local to the     *)
(* task and is folded into the step that follows it.                       *)
(*                                                                         *)
(* SpecAccounts is the account API on its own: two concurrent requests     *)
(* that go through the Auth middleware, CreateAccount and UpdateBalance.   *)
(*                                                                         *)
(* Amounts are integers here (float64 in the code); no claim checked below *)
(* depends on rounding.                                                    *)
(***************************************************************************)
EXTENDS Integers, Sequences, FiniteSets

\* ------------------------------------------------------------- constants

\* High-value cutoff: amounts above it go through fraud review.
Threshold == 10000

\* Bound of the model: how many invoices are ever created.
MaxInvoices == 2

AccountIDs == {"acc1", "acc2"}
UnknownAccountID == "acc_none"

APIKeyOf == [id \in AccountIDs |-> IF id = "acc1" THEN "key1" ELSE "key2"]

\* Amounts a caller submits: the cutoff itself, one above it, one non-positive.
SubmitAmounts == {0, Threshold, Threshold + 5000}

StatusPending == "pending"
StatusApproved == "approved"
StatusRejected == "rejected"

\* The closed status enumeration.
AllStatuses ==
    {"pending", "approved", "rejected", "cancelled", "refunded", "reversed",
     "charged_back", "settled", "disputed"}

\* Status strings a result message may carry: three of the flow, one
\* refinement and one outside the enumeration.
WireStatuses == {"pending", "approved", "rejected", "settled", "bogus"}

\* An invoice id no Submit ever issued.
UnknownInvoiceID == 0

NoInvoice == [id |-> -1, account_id |-> "", amount |-> 0, status |-> ""]
NoAccount == [id |-> "", api_key |-> "", balance |-> 0]
NoResult == [InvoiceID |-> -1, Status |-> ""]

\* Payloads on transactions_result: a JSON object, or bytes that are none.
NoMsg == [kind |-> "none", invoice_id |-> -1, status |-> ""]
Garbage == [kind |-> "garbage", invoice_id |-> -1, status |-> ""]
JSONMessage(id, status) == [kind |-> "json", invoice_id |-> id, status |-> status]

VARIABLES
    accounts,     \* account store: id -> [api_key, balance]
    invoices,     \* invoice store: sequence, invoice id = index
    published,    \* PendingTransaction events written to pending_transactions
    hpc,          \* request handler: position in Submit
    hreq,         \* Submit's arguments
    hinv,         \* Submit's invoice object
    hacc,         \* the *Account the handler holds
    herr,         \* the error Submit returns ("nil": none)
    cpc,          \* consumer: position in Consume
    cres,         \* the decoded TransactionResult
    cinv,         \* ProcessTransactionResult's invoice object
    cacc,         \* the *Account the consumer holds
    cerr,         \* the error being logged ("nil": none)
    cancelled,    \* ctx given to Consume is done
    closed,       \* the reader was released by Close
    credits,      \* history: successful balance writes per invoice
    added,        \* history: sum of the amounts of successful UpdateBalance calls
    tracked,      \* history: one earlier delivery, picked arbitrarily
    replay,       \* history: the message in process repeats the tracked delivery
    calls         \* direct callers of AccountService: the call each one is in

vars ==
    <<accounts, invoices, published, hpc, hreq, hinv, hacc, herr, cpc, cres,
      cinv, cacc, cerr, cancelled, closed, credits, added, tracked, replay,
      calls>>

hvars == <<hpc, hreq, hinv, hacc, herr>>
cvars == <<cpc, cres, cinv, cacc, cerr>>
ghosts == <<credits, added, tracked, replay>>

NoReq == [account_id |-> "", amount |-> 0]

\* The HTTP handlers that call AccountService directly, two at a time.
Callers == {"caller1", "caller2"}

\* Bound of the model: how many calls each of them makes.
MaxCalls == 2

\* API keys the direct callers use: one that is stored from the start and
\* one that is not.
CallKeys == {"key1", "key3"}

\* Ids of the accounts CreateAccount makes.
NewAccountIDs == {"acc3", "acc4"}

\* The amount the direct callers credit.
CallAmounts == {Threshold}

\* http.StatusUnauthorized.
StatusUnauthorized == 401

\* A caller between two calls.  `left` counts the calls it may still make,
\* `next` and `status` are what the Auth middleware did with the request.
NoCall ==
    [pc |-> "idle", op |-> "", key |-> "", amount |-> 0, acct |-> NoAccount,
     err |-> "nil", next |-> FALSE, status |-> 0, left |-> 0]

\* ------------------------------------------------------------ repository

\* AccountRepository.FindByAPIKey: the stored account with that key, nil
\* when there is none, an error when the database fails.
RepoFindByAPIKey(apiKey, dbOk) ==
    IF ~dbOk THEN {[err |-> "db_error", account |-> NoAccount]}
    ELSE LET ids == {id \in DOMAIN accounts : accounts[id].api_key = apiKey}
         IN IF ids = {} THEN {[err |-> "nil", account |-> NoAccount]}
            ELSE {[err |-> "nil",
                   account |-> [id |-> id, api_key |-> apiKey,
                                balance |-> accounts[id].balance]] : id \in ids}

\* AccountRepository.FindByID.
RepoFindByID(id, dbOk) ==
    IF ~dbOk THEN [err |-> "db_error", account |-> NoAccount]
    ELSE IF id \notin DOMAIN accounts THEN [err |-> "nil", account |-> NoAccount]
    ELSE [err |-> "nil",
          account |-> [id |-> id, api_key |-> accounts[id].api_key,
                       balance |-> accounts[id].balance]]

\* AccountRepository.UpdateBalance: stores the balance the account object holds.
RepoUpdateBalance(account, dbOk) ==
    IF dbOk
    THEN [err |-> "nil",
          accounts |-> [accounts EXCEPT ![account.id].balance = account.balance]]
    ELSE [err |-> "db_error", accounts |-> accounts]

\* Account.AddBalance.
AddBalance(account, amount) ==
    [account EXCEPT !.balance = account.balance + amount]

\* ------------------------------------------------------- AccountService

\* AccountService.FindByID.
FindByID(id, dbOk) ==
    LET found == RepoFindByID(id, dbOk)
    IN IF found.err # "nil" THEN found
       ELSE IF found.account = NoAccount
            THEN [err |-> "ErrAccountNotFound", account |-> NoAccount]
            ELSE found

\* Mutant of UpdateBalanceFind: a nil account is not turned into an error.
UpdateBalanceFindNoNilCheck(apiKey, dbOk) == RepoFindByAPIKey(apiKey, dbOk)

\* AccountService.UpdateBalance, first half: the lookup and its two checks.
UpdateBalanceFind(apiKey, dbOk) ==
    {IF found.err # "nil" THEN found
     ELSE IF found.account = NoAccount
          THEN [err |-> "ErrAccountNotFound", account |-> NoAccount]
          ELSE found : found \in RepoFindByAPIKey(apiKey, dbOk)}

\* AccountService.UpdateBalance, second half: AddBalance on the object held,
\* then the repository write.
UpdateBalanceStore(account, amount, dbOk) ==
    RepoUpdateBalance(AddBalance(account, amount), dbOk)

\* Mutant of FindByAPIKey: a nil account is not turned into an error.
FindByAPIKeyNoNilCheck(apiKey, dbOk) == RepoFindByAPIKey(apiKey, dbOk)

\* AccountService.FindByAPIKey.
FindByAPIKey(apiKey, dbOk) ==
    {IF found.err # "nil" THEN found
     ELSE IF found.account = NoAccount
          THEN [err |-> "ErrAccountNotFound", account |-> NoAccount]
          ELSE found : found \in RepoFindByAPIKey(apiKey, dbOk)}

\* AccountRepository.Save: the account is stored under its id.
RepoSave(account, dbOk) ==
    IF dbOk
    THEN [err |-> "nil",
          accounts |-> [id \in DOMAIN accounts \cup {account.id} |->
                          IF id = account.id
                          THEN [api_key |-> account.api_key,
                                balance |-> account.balance]
                          ELSE accounts[id]]]
    ELSE [err |-> "db_error", accounts |-> accounts]

\* AccountService.CreateAccount: the error the answer of its lookup leads
\* to ("nil": go on to Save).
DuplicateCheck(found) ==
    IF found.err # "nil" /\ found.err # "ErrAccountNotFound" THEN found.err
    ELSE IF found.account # NoAccount THEN "ErrAccountDuplicateKey"
    ELSE "nil"

Init ==
    /\ accounts = [id \in AccountIDs |-> [api_key |-> APIKeyOf[id], balance |-> 0]]
    /\ invoices = <<>>
    /\ published = <<>>
    /\ hpc = "idle"
    /\ hreq = NoReq
    /\ hinv = NoInvoice
    /\ hacc = NoAccount
    /\ herr = "nil"
    /\ cpc = "read"
    /\ cres = NoResult
    /\ cinv = NoInvoice
    /\ cacc = NoAccount
    /\ cerr = "nil"
    /\ cancelled = FALSE
    /\ closed = FALSE
    /\ credits = [i \in 1..MaxInvoices |-> 0]
    /\ added = [id \in AccountIDs |-> 0]
    /\ tracked = NoMsg
    /\ replay = FALSE
    /\ calls = [c \in Callers |-> [NoCall EXCEPT !.left = MaxCalls]]

\* ------------------------------------------------------------------ Submit

\* Mutant of InitialStatus: every invoice is settled at once.
InitialStatusAlwaysApproved(amount) == StatusApproved

\* The status Submit gives a new invoice: approved up to the cutoff, pending
\* above it.
InitialStatus(amount) ==
    IF amount > Threshold THEN StatusPending ELSE StatusApproved

\* Mutant of NewPendingTransaction: the amount is left at its zero value.
NewPendingTransactionNoAmount(accountID, invoiceID, amount) ==
    [AccountID |-> accountID, InvoiceID |-> invoiceID, Amount |-> 0]

\* events.NewPendingTransaction.
NewPendingTransaction(accountID, invoiceID, amount) ==
    [AccountID |-> accountID, InvoiceID |-> invoiceID, Amount |-> amount]

\* Mutant of ValidAmount: every amount is taken.
ValidAmountAny(amount) == TRUE

\* Submit's check of the amount: it must be positive.
ValidAmount(amount) == amount > 0

\* Submit is called: the account is looked up, the amount validated and the
\* invoice object made.
SubmitBegin(accountID, amount, dbOk) ==
    /\ hpc = "idle"
    /\ Len(invoices) < MaxInvoices
    /\ hreq' = [account_id |-> accountID, amount |-> amount]
    /\ LET found == FindByID(accountID, dbOk)
       IN IF found.err # "nil"
          THEN /\ herr' = found.err
               /\ hpc' = "return"
               /\ UNCHANGED <<hinv, hacc>>
          ELSE IF ~ValidAmount(amount)
          THEN /\ herr' = "ErrInvalidAmount"
               /\ hpc' = "return"
               /\ UNCHANGED <<hinv, hacc>>
          ELSE /\ hacc' = found.account
               /\ hinv' = [id |-> -1, account_id |-> accountID, amount |-> amount,
                           status |-> InitialStatus(amount)]
               /\ hpc' = IF InitialStatus(amount) = StatusApproved
                         THEN "update_balance_find" ELSE "save"
               /\ herr' = "nil"
    /\ UNCHANGED <<calls, accounts, invoices, published, cvars, cancelled, closed, ghosts>>

\* Above the cutoff: the pending invoice is persisted under a fresh id.
SubmitSave(dbOk) ==
    /\ hpc = "save"
    /\ IF dbOk
       THEN LET saved == [hinv EXCEPT !.id = Len(invoices) + 1]
            IN /\ invoices' = Append(invoices, saved)
               /\ hinv' = saved
               /\ hpc' = "publish"
               /\ herr' = "nil"
       ELSE /\ herr' = "db_error"
            /\ hpc' = "return"
            /\ UNCHANGED <<invoices, hinv>>
    /\ UNCHANGED <<calls, accounts, published, hreq, hacc, cvars, cancelled, closed, ghosts>>

\* Up to the cutoff: AccountService.UpdateBalance up to its lookup.
SubmitUpdateBalanceFind(dbOk) ==
    /\ hpc = "update_balance_find"
    /\ \E found \in UpdateBalanceFind(hacc.api_key, dbOk) :
          IF found.err # "nil"
          THEN /\ herr' = found.err
               /\ hpc' = "return"
               /\ UNCHANGED hacc
          ELSE /\ hacc' = found.account
               /\ hpc' = "settle"
               /\ herr' = "nil"
    /\ UNCHANGED <<calls, accounts, invoices, published, hreq, hinv, cvars, cancelled,
                   closed, ghosts>>

\* Mutant of SubmitSettle: the approved invoice is persisted first and stays
\* when the balance update fails.
SubmitSettleInvoiceFirst(dbOk) ==
    /\ hpc = "settle"
    /\ LET stored == UpdateBalanceStore(hacc, hinv.amount, dbOk)
           saved == [hinv EXCEPT !.id = Len(invoices) + 1]
       IN /\ accounts' = stored.accounts
          /\ herr' = stored.err
          /\ invoices' = Append(invoices, saved)
          /\ hinv' = saved
          /\ IF stored.err = "nil"
             THEN /\ credits' = [credits EXCEPT ![saved.id] = @ + 1]
                  /\ added' = [added EXCEPT ![hacc.id] = @ + hinv.amount]
             ELSE UNCHANGED <<credits, added>>
    /\ hpc' = "return"
    /\ UNCHANGED <<calls, published, hreq, hacc, cvars, cancelled, closed,
                   tracked, replay>>

\* Up to the cutoff: the rest of AccountService.UpdateBalance and the
\* persisting of the approved invoice, one failure domain: both writes
\* happen or neither does.
SubmitSettle(dbOk) ==
    /\ hpc = "settle"
    /\ LET stored == UpdateBalanceStore(hacc, hinv.amount, dbOk)
           saved == [hinv EXCEPT !.id = Len(invoices) + 1]
       IN /\ accounts' = stored.accounts
          /\ herr' = stored.err
          /\ IF stored.err = "nil"
             THEN /\ invoices' = Append(invoices, saved)
                  /\ hinv' = saved
                  /\ credits' = [credits EXCEPT ![saved.id] = @ + 1]
                  /\ added' = [added EXCEPT ![hacc.id] = @ + hinv.amount]
             ELSE UNCHANGED <<invoices, hinv, credits, added>>
    /\ hpc' = "return"
    /\ UNCHANGED <<calls, published, hreq, hacc, cvars, cancelled, closed,
                   tracked, replay>>

\* Mutant of SubmitPublish: a failed write is not reported.
SubmitPublishSwallowsError(written) ==
    /\ hpc = "publish"
    /\ IF written
       THEN published' = Append(published,
                NewPendingTransaction(hinv.account_id, hinv.id, hinv.amount))
       ELSE UNCHANGED published
    /\ herr' = "nil"
    /\ hpc' = "return"
    /\ UNCHANGED <<calls, accounts, invoices, hreq, hinv, hacc, cvars, cancelled, closed,
                   ghosts>>

\* KafkaProducer.Publish: the event is written, or the write fails.
SubmitPublish(written) ==
    /\ hpc = "publish"
    /\ IF written
       THEN /\ published' = Append(published,
                  NewPendingTransaction(hinv.account_id, hinv.id, hinv.amount))
            /\ herr' = "nil"
       ELSE /\ herr' = "transport_error"
            /\ UNCHANGED published
    /\ hpc' = "return"
    /\ UNCHANGED <<calls, accounts, invoices, hreq, hinv, hacc, cvars, cancelled, closed,
                   ghosts>>

\* Submit returns hinv (herr = "nil") or herr to its caller.
SubmitReturn ==
    /\ hpc = "return"
    /\ hpc' = "idle"
    /\ hreq' = NoReq
    /\ hinv' = NoInvoice
    /\ hacc' = NoAccount
    /\ herr' = "nil"
    /\ UNCHANGED <<calls, accounts, invoices, published, cvars, cancelled, closed, ghosts>>

\* ----------------------------------------------------------------- Consume

\* Every payload the results topic can deliver now: garbage, or a result for
\* an invoice that exists or for one that never did.
WireMessages ==
    {Garbage} \cup
    {JSONMessage(id, st) :
        id \in {UnknownInvoiceID} \cup (1..Len(invoices)), st \in WireStatuses}

\* json.Unmarshal into events.TransactionResult.
Unmarshal(msg) ==
    IF msg.kind = "json"
    THEN [err |-> "nil",
          result |-> [InvoiceID |-> msg.invoice_id, Status |-> msg.status]]
    ELSE [err |-> "unmarshal_error", result |-> NoResult]

\* Mutant of ToDomainStatus: every result is read as pending.
ToDomainStatusPending(result) == StatusPending

\* TransactionResult.ToDomainStatus: a cast of the string, nothing is checked.
ToDomainStatus(result) == result.Status

\* InvoiceRepository.FindByID.
InvoiceFindByID(id, dbOk) ==
    IF ~dbOk THEN [err |-> "db_error", invoice |-> NoInvoice]
    ELSE IF id \notin 1..Len(invoices)
    THEN [err |-> "ErrTransactionNotFound", invoice |-> NoInvoice]
    ELSE [err |-> "nil", invoice |-> invoices[id]]

\* Mutant of UpdateStatus: the current status is not looked at.
UpdateStatusUnguarded(invoice, newStatus) ==
    {[err |-> "nil", invoice |-> [invoice EXCEPT !.status = newStatus]]}

\* Invoice.UpdateStatus: the outcomes of asking for newStatus.  Only a
\* pending invoice moves, and only to approved or rejected; a status outside
\* the enumeration is either refused or taken as it is, and pending to
\* pending either refused or taken as the no-op it is.
UpdateStatus(invoice, newStatus) ==
    IF invoice.status # StatusPending
    THEN {[err |-> "ErrTransactionAlreadyProcessed", invoice |-> invoice]}
    ELSE IF newStatus \in {StatusApproved, StatusRejected}
    THEN {[err |-> "nil", invoice |-> [invoice EXCEPT !.status = newStatus]]}
    ELSE IF newStatus \in AllStatuses \ {StatusPending}
    THEN {[err |-> "ErrTransactionNotAllowed", invoice |-> invoice]}
    ELSE {[err |-> "ErrInvalidStatus", invoice |-> invoice],
          [err |-> "nil", invoice |-> [invoice EXCEPT !.status = newStatus]]}

\* InvoiceRepository.UpdateStatus: stores the status the invoice object holds.
InvoiceUpdateStatus(invoice, dbOk) ==
    IF dbOk
    THEN [err |-> "nil",
          invoices |-> [invoices EXCEPT ![invoice.id].status = invoice.status]]
    ELSE [err |-> "db_error", invoices |-> invoices]

\* Mutant of ReturnsOn: an already-processed invoice is not an error.
ReturnsOnUnlessProcessed(err) ==
    err \notin {"nil", "ErrTransactionAlreadyProcessed"}

\* ProcessTransactionResult returns as soon as a call gave it an error.
ReturnsOn(err) == err # "nil"

\* Mutant of CreditsOn: the account is credited whatever the status.
CreditsOnAny(status) == TRUE

\* ProcessTransactionResult credits the account for this status only.
CreditsOn(status) == status = StatusApproved

\* Mutant of AfterError: the error is returned to the caller of Consume.
AfterErrorReturn == "returned"

\* Where Consume goes after it logged an error: `continue`.
AfterError == "read"

\* reader.ReadMessage(ctx) can hand out a message.
CanDeliver == ~cancelled /\ ~closed

\* The error reader.ReadMessage(ctx) returns when it hands out none: the
\* context's once ctx is done, the closed reader's, or a transient one.
ReadError ==
    IF cancelled THEN "context_canceled"
    ELSE IF closed THEN "reader_closed"
    ELSE "read_error"

\* Top of the loop: ReadMessage and json.Unmarshal.  `track` is history
\* only: it picks this delivery as the one a later replay is compared with.
ConsumeRead(track) ==
    /\ cpc = "read"
    /\ \/ /\ cerr' = ReadError
          /\ cpc' = "log_error"
          /\ UNCHANGED <<cres, tracked, replay>>
       \/ /\ CanDeliver
          /\ \E msg \in WireMessages :
                /\ replay' = (msg = tracked)
                /\ tracked' = IF track /\ tracked = NoMsg THEN msg ELSE tracked
                /\ LET decoded == Unmarshal(msg)
                   IN IF decoded.err # "nil"
                      THEN /\ cerr' = decoded.err
                           /\ cpc' = "log_error"
                           /\ UNCHANGED cres
                      ELSE /\ cres' = decoded.result
                           /\ cpc' = "find_invoice"
                           /\ cerr' = "nil"
    /\ UNCHANGED <<calls, accounts, invoices, published, hvars, cinv, cacc, cancelled,
                   closed, credits, added>>

\* ProcessTransactionResult: invoiceRepository.FindByID.
ConsumeFindInvoice(dbOk) ==
    /\ cpc = "find_invoice"
    /\ LET found == InvoiceFindByID(cres.InvoiceID, dbOk)
       IN IF ReturnsOn(found.err)
          THEN /\ cerr' = found.err
               /\ cpc' = "log_error"
               /\ UNCHANGED cinv
          ELSE /\ cinv' = found.invoice
               /\ cpc' = "update_status"
               /\ cerr' = "nil"
    /\ UNCHANGED <<calls, accounts, invoices, published, hvars, cres, cacc, cancelled,
                   closed, ghosts>>

\* ProcessTransactionResult: invoice.UpdateStatus, then
\* invoiceRepository.UpdateStatus, then the test on the status.
ConsumeUpdateStatus(dbOk) ==
    /\ cpc = "update_status"
    /\ \E moved \in UpdateStatus(cinv, ToDomainStatus(cres)) :
          IF ReturnsOn(moved.err)
          THEN /\ cerr' = moved.err
               /\ cpc' = "log_error"
               /\ UNCHANGED <<cinv, invoices>>
          ELSE LET stored == InvoiceUpdateStatus(moved.invoice, dbOk)
               IN /\ cinv' = moved.invoice
                  /\ invoices' = stored.invoices
                  /\ cerr' = stored.err
                  /\ cpc' = IF ReturnsOn(stored.err) THEN "log_error"
                            ELSE IF CreditsOn(ToDomainStatus(cres))
                            THEN "find_account"
                            ELSE "log_success"
    /\ UNCHANGED <<calls, accounts, published, hvars, cres, cacc, cancelled, closed,
                   ghosts>>

\* ProcessTransactionResult: accountService.FindByID.
ConsumeFindAccount(dbOk) ==
    /\ cpc = "find_account"
    /\ LET found == FindByID(cinv.account_id, dbOk)
       IN IF ReturnsOn(found.err)
          THEN /\ cerr' = found.err
               /\ cpc' = "log_error"
               /\ UNCHANGED cacc
          ELSE /\ cacc' = found.account
               /\ cpc' = "update_balance_find"
               /\ cerr' = "nil"
    /\ UNCHANGED <<calls, accounts, invoices, published, hvars, cres, cinv, cancelled,
                   closed, ghosts>>

\* ProcessTransactionResult: AccountService.UpdateBalance up to its lookup.
ConsumeUpdateBalanceFind(dbOk) ==
    /\ cpc = "update_balance_find"
    /\ \E found \in UpdateBalanceFind(cacc.api_key, dbOk) :
          IF found.err # "nil"
          THEN /\ cerr' = found.err
               /\ cpc' = "log_error"
               /\ UNCHANGED cacc
          ELSE /\ cacc' = found.account
               /\ cpc' = "update_balance_store"
               /\ cerr' = "nil"
    /\ UNCHANGED <<calls, accounts, invoices, published, hvars, cres, cinv, cancelled,
                   closed, ghosts>>

\* ProcessTransactionResult: the rest of AccountService.UpdateBalance.
ConsumeUpdateBalanceStore(dbOk) ==
    /\ cpc = "update_balance_store"
    /\ LET stored == UpdateBalanceStore(cacc, cinv.amount, dbOk)
       IN /\ accounts' = stored.accounts
          /\ cerr' = stored.err
          /\ cpc' = IF ReturnsOn(stored.err) THEN "log_error" ELSE "log_success"
          /\ IF stored.err = "nil"
             THEN /\ credits' = [credits EXCEPT ![cinv.id] = @ + 1]
                  /\ added' = [added EXCEPT ![cacc.id] = @ + cinv.amount]
             ELSE UNCHANGED <<credits, added>>
    /\ UNCHANGED <<calls, invoices, published, hvars, cres, cinv, cacc, cancelled, closed,
                   tracked, replay>>

\* slog.Error and `continue`.
ConsumeLogError ==
    /\ cpc = "log_error"
    /\ cpc' = AfterError
    /\ replay' = FALSE
    /\ cres' = NoResult
    /\ cinv' = NoInvoice
    /\ cacc' = NoAccount
    /\ cerr' = "nil"
    /\ UNCHANGED <<calls, accounts, invoices, published, hvars, cancelled, closed, credits,
                   added, tracked>>

\* slog.Info "transaction processed successfully", and the next iteration.
ConsumeLogSuccess ==
    /\ cpc = "log_success"
    /\ cpc' = "read"
    /\ replay' = FALSE
    /\ cres' = NoResult
    /\ cinv' = NoInvoice
    /\ cacc' = NoAccount
    /\ cerr' = "nil"
    /\ UNCHANGED <<calls, accounts, invoices, published, hvars, cancelled, closed, credits,
                   added, tracked>>

\* The caller of Consume raises the cancellation signal.
Cancel ==
    /\ ~cancelled
    /\ cancelled' = TRUE
    /\ UNCHANGED <<calls, accounts, invoices, published, hvars, cvars, closed, ghosts>>

\* KafkaConsumer.Close, run at shutdown.
Close ==
    /\ cancelled
    /\ ~closed
    /\ closed' = TRUE
    /\ UNCHANGED <<calls, accounts, invoices, published, hvars, cvars, cancelled, ghosts>>

\* --------------------------------------------- AccountService, called directly

\* What a direct call of AccountService leaves alone.
others == <<invoices, published, hvars, cvars, cancelled, closed, ghosts>>

\* Caller c starts a call of op for key.
Enter(c, op, key, amount) ==
    /\ calls[c].pc = "idle"
    /\ calls[c].left > 0
    /\ calls' = [calls EXCEPT ![c] =
                    [NoCall EXCEPT !.pc = "find", !.op = op, !.key = key,
                                   !.amount = amount, !.left = calls[c].left - 1]]

\* CreateAccount is called: dto.ToAccount makes the account object.
CreateAccountBegin(c, key) ==
    /\ Enter(c, "CreateAccount", key, 0)
    /\ UNCHANGED <<accounts, others>>

\* CreateAccount: repository.FindByAPIKey and the two tests on its answer.
CreateAccountFind(c, dbOk) ==
    /\ calls[c].pc = "find"
    /\ calls[c].op = "CreateAccount"
    /\ \E found \in RepoFindByAPIKey(calls[c].key, dbOk) :
          calls' = [calls EXCEPT ![c].err = DuplicateCheck(found),
                                 ![c].pc = IF DuplicateCheck(found) = "nil"
                                           THEN "save" ELSE "return"]
    /\ UNCHANGED <<accounts, others>>

\* CreateAccount: repository.Save of the new account, balance zero.
CreateAccountSave(c, dbOk) ==
    /\ calls[c].pc = "save"
    /\ NewAccountIDs \ DOMAIN accounts # {}
    /\ LET id == CHOOSE x \in NewAccountIDs \ DOMAIN accounts : TRUE
           account == [id |-> id, api_key |-> calls[c].key, balance |-> 0]
           saved == RepoSave(account, dbOk)
       IN /\ accounts' = saved.accounts
          /\ calls' = [calls EXCEPT ![c].err = saved.err,
                                    ![c].acct = IF saved.err = "nil" THEN account
                                                ELSE NoAccount,
                                    ![c].pc = "return"]
    /\ UNCHANGED others

\* UpdateBalance is called.
UpdateBalanceBegin(c, key, amount) ==
    /\ Enter(c, "UpdateBalance", key, amount)
    /\ UNCHANGED <<accounts, others>>

\* UpdateBalance up to its lookup.
CallUpdateBalanceFind(c, dbOk) ==
    /\ calls[c].pc = "find"
    /\ calls[c].op = "UpdateBalance"
    /\ \E found \in UpdateBalanceFind(calls[c].key, dbOk) :
          calls' = [calls EXCEPT ![c].err = found.err,
                                 ![c].acct = found.account,
                                 ![c].pc = IF found.err # "nil" THEN "return"
                                           ELSE "store"]
    /\ UNCHANGED <<accounts, others>>

\* The rest of UpdateBalance.
CallUpdateBalanceStore(c, dbOk) ==
    /\ calls[c].pc = "store"
    /\ LET stored == UpdateBalanceStore(calls[c].acct, calls[c].amount, dbOk)
       IN /\ accounts' = stored.accounts
          /\ calls' = [calls EXCEPT ![c].err = stored.err, ![c].pc = "return"]
    /\ UNCHANGED others

\* A request reaches the Auth middleware: the X-API-KEY header is read,
\* and an empty one is answered 401 at once.
AuthBegin(c, key) ==
    /\ calls[c].pc = "idle"
    /\ calls[c].left > 0
    /\ calls' = [calls EXCEPT ![c] =
                    [NoCall EXCEPT !.pc = IF key = "" THEN "return" ELSE "find",
                                   !.op = "Auth",
                                   !.key = key,
                                   !.status = IF key = "" THEN StatusUnauthorized
                                              ELSE 0,
                                   !.left = calls[c].left - 1]]
    /\ UNCHANGED <<accounts, others>>

\* Auth: accountService.FindByAPIKey; 401 on an error, else the next
\* handler is invoked.
AuthFind(c, dbOk) ==
    /\ calls[c].pc = "find"
    /\ calls[c].op = "Auth"
    /\ \E found \in FindByAPIKey(calls[c].key, dbOk) :
          calls' = [calls EXCEPT ![c].err = found.err,
                                 ![c].next = (found.err = "nil"),
                                 ![c].status = IF found.err # "nil"
                                               THEN StatusUnauthorized ELSE 0,
                                 ![c].pc = "return"]
    /\ UNCHANGED <<accounts, others>>

\* The call returns to its caller.
CallReturn(c) ==
    /\ calls[c].pc = "return"
    /\ calls' = [calls EXCEPT ![c] = [NoCall EXCEPT !.left = calls[c].left]]
    /\ UNCHANGED <<accounts, others>>

\* ------------------------------------------------------------- the system

Submit ==
    \/ \E accountID \in AccountIDs \cup {UnknownAccountID}, amount \in SubmitAmounts,
          dbOk \in BOOLEAN : SubmitBegin(accountID, amount, dbOk)
    \/ \E dbOk \in BOOLEAN : SubmitSave(dbOk)
    \/ \E dbOk \in BOOLEAN : SubmitUpdateBalanceFind(dbOk)
    \/ \E dbOk \in BOOLEAN : SubmitSettle(dbOk)
    \/ \E written \in BOOLEAN : SubmitPublish(written)
    \/ SubmitReturn

ProcessTransactionResult ==
    \/ \E dbOk \in BOOLEAN : ConsumeFindInvoice(dbOk)
    \/ \E dbOk \in BOOLEAN : ConsumeUpdateStatus(dbOk)
    \/ \E dbOk \in BOOLEAN : ConsumeFindAccount(dbOk)
    \/ \E dbOk \in BOOLEAN : ConsumeUpdateBalanceFind(dbOk)
    \/ \E dbOk \in BOOLEAN : ConsumeUpdateBalanceStore(dbOk)

Consume ==
    \/ ConsumeRead(FALSE)
    \/ ProcessTransactionResult
    \/ ConsumeLogError
    \/ ConsumeLogSuccess

Next == Submit \/ Consume

\* Request handling and result consumption while the process runs.
Spec == Init /\ [][Next]_vars

\* The same with one delivery remembered, to compare a later delivery of the
\* same message with it.
ConsumeTracked ==
    \/ \E track \in BOOLEAN : ConsumeRead(track)
    \/ ProcessTransactionResult
    \/ ConsumeLogError
    \/ ConsumeLogSuccess

NextReplay == Submit \/ ConsumeTracked

SpecReplay == Init /\ [][NextReplay]_vars

\* The same with the shutdown: the signal is raised, the reader closed.
NextShutdown == Submit \/ Consume \/ Cancel \/ Close

SpecShutdown == Init /\ [][NextShutdown]_vars

\* CreateAccount, UpdateBalance and the Auth middleware as the HTTP handlers
\* run them, two requests at a time.
CreateAccount ==
    \E c \in Callers :
        \/ \E key \in CallKeys : CreateAccountBegin(c, key)
        \/ \E dbOk \in BOOLEAN : CreateAccountFind(c, dbOk)
        \/ \E dbOk \in BOOLEAN : CreateAccountSave(c, dbOk)

UpdateBalance ==
    \E c \in Callers :
        \/ \E key \in CallKeys, amount \in CallAmounts :
              UpdateBalanceBegin(c, key, amount)
        \/ \E dbOk \in BOOLEAN : CallUpdateBalanceFind(c, dbOk)
        \/ \E dbOk \in BOOLEAN : CallUpdateBalanceStore(c, dbOk)

Auth ==
    \E c \in Callers :
        \/ \E key \in CallKeys \cup {""} : AuthBegin(c, key)
        \/ \E dbOk \in BOOLEAN : AuthFind(c, dbOk)

Return == \E c \in Callers : CallReturn(c)

NextAccounts == CreateAccount \/ UpdateBalance \/ Auth \/ Return

SpecAccounts == Init /\ [][NextAccounts]_vars

\* ProcessTransactionResult with repositories that do not fail.
ProcessLive ==
    \/ ConsumeFindInvoice(TRUE)
    \/ ConsumeUpdateStatus(TRUE)
    \/ ConsumeFindAccount(TRUE)
    \/ ConsumeUpdateBalanceFind(TRUE)
    \/ ConsumeUpdateBalanceStore(TRUE)

ConsumeLive ==
    \/ ConsumeRead(FALSE)
    \/ ProcessLive
    \/ ConsumeLogError
    \/ ConsumeLogSuccess

NextLive == Submit \/ ConsumeLive

\* The process with a Consumer that is never cancelled, whose repository
\* calls succeed and whose goroutine is scheduled whenever it can go on
\* with the message it holds.
SpecLive == Init /\ [][NextLive]_vars /\ WF_vars(ProcessLive)

\* ------------------------------------------------------------ properties

InvoiceIDs == 1..Len(invoices)

\* A step of the request handler, a step of the consumer.
HandlerStep == hpc' # hpc
ConsumerStep == cpc' # cpc

\* No Submit and no result processing is in progress.
Quiescent == hpc = "idle" /\ cpc = "read"

\* No AccountService.UpdateBalance call is in progress.
NoUpdateBalanceRunning ==
    /\ hpc \notin {"update_balance_find", "settle"}
    /\ cpc \notin {"update_balance_find", "update_balance_store"}

RECURSIVE SettledSum(_, _)
\* Sum of the amounts of the first n invoices that belong to account id and
\* are approved or settled.
SettledSum(id, n) ==
    IF n = 0 THEN 0
    ELSE SettledSum(id, n - 1) +
         (IF /\ invoices[n].account_id = id
             /\ invoices[n].status \in {StatusApproved, "settled"}
          THEN invoices[n].amount ELSE 0)

\* The stored status of the invoice the decoded result names ("" if none).
TargetStatus ==
    IF cres.InvoiceID \in InvoiceIDs THEN invoices[cres.InvoiceID].status ELSE ""

\* C1 (as stated): no invoice is credited more than once, and no step the
\* consumer takes for a message it was already given before changes an
\* invoice or a balance.
C1_ReplayChangesNothing ==
    /\ [](\A i \in 1..MaxInvoices : credits[i] <= 1)
    /\ [][(replay /\ ConsumerStep) =>
            (invoices' = invoices /\ accounts' = accounts)]_vars

\* The consumer is about to look at the invoice its message names: it has
\* not yet moved it.
BeforeTransition == cpc \in {"find_invoice", "update_status"}

\* C1 (amended): no invoice is credited more than once, and a message the
\* consumer was already given before, when it comes for an invoice whose
\* stored status is not pending (or for no invoice), is dropped at the lookup
\* or at UpdateStatus without a change to any invoice or balance.
C1_IdempotentReplay ==
    /\ [](\A i \in 1..MaxInvoices : credits[i] <= 1)
    /\ [][(/\ replay
           /\ ConsumerStep
           /\ BeforeTransition
           /\ TargetStatus # StatusPending) =>
            /\ invoices' = invoices
            /\ accounts' = accounts
            /\ cpc' \in {"update_status", "log_error"}]_vars

\* C1 witness: the approved result of a credited invoice came a second time
\* and was refused.
C1_Witness ==
    /\ replay
    /\ cpc = "log_error"
    /\ cerr = "ErrTransactionAlreadyProcessed"
    /\ cres.Status = StatusApproved
    /\ cres.InvoiceID \in InvoiceIDs
    /\ credits[cres.InvoiceID] = 1

\* C2: whenever no UpdateBalance call is running, every stored balance is the
\* initial balance (zero) plus the amounts of all UpdateBalance calls that
\* succeeded for that account.
C2_NoLostUpdates ==
    NoUpdateBalanceRunning =>
        \A id \in AccountIDs : accounts[id].balance = added[id]

\* C3: in every quiescent state each balance is the initial balance (zero)
\* plus the amounts of the account's approved or settled invoices.
C3_LedgerConsistent ==
    Quiescent =>
        \A id \in AccountIDs : accounts[id].balance = SettledSum(id, Len(invoices))

\* C4: a Submit up to the cutoff that succeeds returns an approved invoice,
\* and its balance write raised the stored balance of its account by exactly
\* the amount.
C4_SynchronousSettlement ==
    /\ []((hpc = "return" /\ herr = "nil" /\ hreq.amount <= Threshold) =>
            hinv.status = StatusApproved)
    /\ [][(hpc = "settle" /\ hpc' = "return" /\ herr' = "nil") =>
            accounts' = [accounts EXCEPT ![hinv.account_id].balance =
                                            @ + hinv.amount]]_vars

\* C5: a Submit above the cutoff that succeeds returns a pending invoice, and
\* no step of a Submit above the cutoff changes any balance.
C5_AsynchronousRouting ==
    /\ []((hpc = "return" /\ herr = "nil" /\ hreq.amount > Threshold) =>
            hinv.status = StatusPending)
    /\ [][(HandlerStep /\ (hreq.amount > Threshold \/ hreq'.amount > Threshold)) =>
            accounts' = accounts]_vars

\* C5 witness: a Submit of 15,000 is about to return its pending invoice, the
\* event published.
C5_Witness ==
    /\ hpc = "return"
    /\ herr = "nil"
    /\ hreq.amount > Threshold
    /\ hinv.status = StatusPending
    /\ Len(published) > 0
    /\ published[Len(published)].InvoiceID = hinv.id

\* C6: when the consumer finishes an approved result for a pending invoice,
\* the invoice is approved, the balance write raised the owner's stored
\* balance by exactly the amount and touched no other account, and no
\* consumer step of that processing changed another invoice.
C6_ApprovalSettlement ==
    /\ [][(cpc = "update_balance_store" /\ cpc' = "log_success") =>
            /\ invoices[cinv.id].status = StatusApproved
            /\ accounts' = [accounts EXCEPT ![cinv.account_id].balance =
                                               @ + cinv.amount]]_vars
    /\ [][ConsumerStep =>
            \A i \in InvoiceIDs :
                i # cres.InvoiceID => invoices'[i] = invoices[i]]_vars

\* C7: an invoice whose status is not pending never becomes pending again.
C7_NoReturnToPending ==
    [][\A i \in InvoiceIDs :
          invoices[i].status # StatusPending =>
              invoices'[i].status # StatusPending]_vars

\* C7 witness: a result carrying "pending" was refused for an invoice that
\* had left pending.
C7_Witness ==
    /\ cpc = "log_error"
    /\ cres.Status = StatusPending
    /\ cres.InvoiceID \in InvoiceIDs
    /\ invoices[cres.InvoiceID].status \in {StatusApproved, StatusRejected}

\* C8: for an invoice already approved or rejected, a result carrying
\* approved or rejected fails in UpdateStatus with the already-processed
\* error; the processing of such a result ends there, without a change to any
\* invoice or balance; and a rejected invoice is never credited.
C8_ProcessedResultsRejected ==
    /\ [][(/\ cpc = "update_status"
           /\ ConsumerStep
           /\ cinv.status \in {StatusApproved, StatusRejected}
           /\ cres.Status \in {StatusApproved, StatusRejected}) =>
            (cpc' = "log_error" /\ cerr' = "ErrTransactionAlreadyProcessed")]_vars
    /\ [][(/\ ConsumerStep
           /\ BeforeTransition
           /\ TargetStatus \in {StatusApproved, StatusRejected}
           /\ cres.Status \in {StatusApproved, StatusRejected}) =>
            /\ invoices' = invoices
            /\ accounts' = accounts
            /\ cpc' \in {"update_status", "log_error"}]_vars
    /\ [](\A i \in InvoiceIDs :
            invoices[i].status = StatusRejected => credits[i] = 0)

\* C8 witness: an approved result for a rejected invoice was refused.
C8_Witness ==
    /\ cpc = "log_error"
    /\ cerr = "ErrTransactionAlreadyProcessed"
    /\ cres.Status = StatusApproved
    /\ cres.InvoiceID \in InvoiceIDs
    /\ invoices[cres.InvoiceID].status = StatusRejected
    /\ credits[cres.InvoiceID] = 0

\* The positions of the loop body of Consume.
LoopPositions ==
    {"read", "find_invoice", "update_status", "find_account",
     "update_balance_find", "update_balance_store", "log_error", "log_success"}

\* C9: the consumer never leaves its loop; a step that ends in an error goes
\* to the logging of that error, and from there the loop is back at reading
\* the next message.
C9_ConsumerResilience ==
    /\ [](cpc \in LoopPositions)
    /\ [][(ConsumerStep /\ cerr' # "nil") => cpc' = "log_error"]_vars
    /\ [][(ConsumerStep /\ cpc = "log_error") => cpc' = "read"]_vars

\* C9 witness: an approved result was processed to the end and credited
\* after the processing of another one had failed: that other invoice is
\* above the cutoff, so only the consumer can have approved it, and it is not
\* credited, so the consumer left it at a failed account lookup or balance
\* write.
C9_Witness ==
    /\ cpc = "log_success"
    /\ cres.Status = StatusApproved
    /\ credits[cinv.id] = 1
    /\ \E j \in InvoiceIDs :
          /\ j # cinv.id
          /\ invoices[j].amount > Threshold
          /\ invoices[j].status = StatusApproved
          /\ credits[j] = 0

\* C10: once the cancellation signal is raised, the read that fails on it
\* ends the loop: after that error Consume returns instead of going round
\* again.
C10_CooperativeCancellation ==
    [][(cpc = "log_error" /\ cerr = "context_canceled" /\ ConsumerStep) =>
          cpc' = "returned"]_vars

\* A step of a Submit whose amount is at most the cutoff.
SynchronousStep ==
    /\ HandlerStep
    /\ IF hpc = "idle" THEN hreq'.amount <= Threshold ELSE hreq.amount <= Threshold

PublishedFor(id) == {k \in 1..Len(published) : published[k].InvoiceID = id}

\* C12: when the publish of a Submit above the cutoff fails, the step
\* changes no invoice and no balance and Submit goes on to return the error;
\* at that return the invoice is stored, the invoice Submit holds is pending
\* and nothing was published for it; and the return publishes nothing and
\* changes no invoice and no balance.
C12_PublishFailureKeepsInvoice ==
    /\ [][(hpc = "publish" /\ HandlerStep /\ published' = published) =>
            /\ hpc' = "return"
            /\ herr' # "nil"
            /\ invoices' = invoices
            /\ accounts' = accounts]_vars
    /\ []((hpc = "return" /\ herr = "transport_error") =>
            /\ hreq.amount > Threshold
            /\ hinv.id \in InvoiceIDs
            /\ hinv.status = StatusPending
            /\ invoices[hinv.id].amount = hreq.amount
            /\ PublishedFor(hinv.id) = {})
    /\ [][(hpc = "return" /\ HandlerStep) =>
            /\ hpc' = "idle"
            /\ published' = published
            /\ invoices' = invoices
            /\ accounts' = accounts]_vars

\* C12 witness: a Submit of 15,000 is about to return the transport error;
\* its invoice is stored pending, no event names it and every balance is
\* still zero.
C12_Witness ==
    /\ hpc = "return"
    /\ herr = "transport_error"
    /\ hreq.amount = Threshold + 5000
    /\ hinv.id \in InvoiceIDs
    /\ invoices[hinv.id].status = StatusPending
    /\ PublishedFor(hinv.id) = {}
    /\ \A id \in AccountIDs : accounts[id].balance = 0

\* C13: every stored invoice status is one of the nine enumerated statuses,
\* and a result whose status string is not one of them is refused: its
\* processing ends at the lookup or at UpdateStatus in an error, without a
\* change to any invoice or balance.
C13_ClosedStatusSet ==
    /\ [](\A i \in InvoiceIDs : invoices[i].status \in AllStatuses)
    /\ [][(/\ ConsumerStep
           /\ BeforeTransition
           /\ ToDomainStatus(cres) \notin AllStatuses) =>
            /\ invoices' = invoices
            /\ accounts' = accounts
            /\ cpc' \in {"update_status", "log_error"}]_vars

\* The Submit call in hand (its arguments are args) names no stored account
\* or a non-positive amount.
InputError(args) ==
    args.account_id \notin DOMAIN accounts \/ args.amount <= 0

\* C14: a Submit for an account id that is not stored returns
\* ErrAccountNotFound and a Submit with a non-positive amount for a stored
\* account returns ErrInvalidAmount, whenever the repository answered the
\* account lookup (else the lookup's error is returned); and no step of such
\* a Submit creates an invoice, publishes an event or changes a balance.
C14_SubmitInputErrors ==
    /\ []((hpc = "return" /\ hreq.account_id \notin DOMAIN accounts) =>
            herr \in {"ErrAccountNotFound", "db_error"})
    /\ []((/\ hpc = "return"
           /\ hreq.account_id \in DOMAIN accounts
           /\ hreq.amount <= 0) =>
            herr \in {"ErrInvalidAmount", "db_error"})
    /\ [][(HandlerStep /\ InputError(IF hpc = "idle" THEN hreq' ELSE hreq)) =>
            /\ hpc' = (IF hpc = "idle" THEN "return" ELSE "idle")
            /\ invoices' = invoices
            /\ published' = published
            /\ accounts' = accounts]_vars

\* C14 witness: after one invoice was created, a Submit of amount 0 for a
\* stored account is about to return ErrInvalidAmount.
C14_Witness ==
    /\ hpc = "return"
    /\ herr = "ErrInvalidAmount"
    /\ hreq.account_id \in DOMAIN accounts
    /\ hreq.amount <= 0
    /\ hinv = NoInvoice
    /\ Len(invoices) = 1
    /\ Len(published) = 1

\* A step of direct caller c.
CallerStep(c) == calls'[c] # calls[c]

\* The ids of the stored accounts that have API key key.
StoredWith(key) == {id \in DOMAIN accounts : accounts[id].api_key = key}

\* C15: an UpdateBalance for an API key with no stored account ends at its
\* lookup with ErrAccountNotFound or the repository's error, never reaching
\* repository.UpdateBalance; and the only step of an UpdateBalance call
\* that changes a stored balance is a repository write that succeeds, so a
\* call that returns an error has changed none.
C15_LedgerErrorPath ==
    /\ [][\A c \in Callers :
            (/\ CallerStep(c)
             /\ calls[c].op = "UpdateBalance"
             /\ calls[c].pc = "find"
             /\ StoredWith(calls[c].key) = {}) =>
                /\ calls'[c].pc = "return"
                /\ calls'[c].err \in {"ErrAccountNotFound", "db_error"}]_vars
    /\ [][\A c \in Callers :
            (/\ CallerStep(c)
             /\ "UpdateBalance" \in {calls[c].op, calls'[c].op}
             /\ ~(calls[c].pc = "store" /\ calls'[c].err = "nil")) =>
                accounts' = accounts]_vars
    /\ [](\A c \in Callers :
            (calls[c].pc = "store") =>
                (calls[c].err = "nil" /\ StoredWith(calls[c].key) # {}))

\* C15 witness: an UpdateBalance for the unknown key is about to return
\* ErrAccountNotFound while the other caller's UpdateBalance for the stored
\* key has credited its account.
C15_Witness ==
    \E c \in Callers :
        /\ calls[c].op = "UpdateBalance"
        /\ calls[c].pc = "return"
        /\ calls[c].err = "ErrAccountNotFound"
        /\ StoredWith(calls[c].key) = {}
        /\ \E id \in DOMAIN accounts : accounts[id].balance > 0

\* The PendingTransaction that carries the fields of invoice inv.
EventOf(inv) ==
    [AccountID |-> inv.account_id, InvoiceID |-> inv.id, Amount |-> inv.amount]

\* C16: a Submit that succeeds has published exactly one event for its
\* invoice when the amount is above the cutoff and none when it is not, and
\* every published event carries the account id, the id and the amount of a
\* stored invoice above the cutoff that no other event names.
C16_PublishExactlyHighValue ==
    /\ []((hpc = "return" /\ herr = "nil") =>
            /\ hinv.id \in InvoiceIDs
            /\ hinv.account_id = hreq.account_id
            /\ hinv.amount = hreq.amount
            /\ Cardinality(PublishedFor(hinv.id)) =
                   (IF hreq.amount > Threshold THEN 1 ELSE 0)
            /\ \A k \in PublishedFor(hinv.id) : published[k] = EventOf(hinv))
    /\ [](\A k \in 1..Len(published) :
            /\ published[k].InvoiceID \in InvoiceIDs
            /\ published[k] = EventOf(invoices[published[k].InvoiceID])
            /\ published[k].Amount > Threshold
            /\ PublishedFor(published[k].InvoiceID) = {k})

\* C16 witness: after a Submit of 10,000 that published nothing, a Submit
\* of 15,000 is about to return with its one event published.
C16_Witness ==
    /\ hpc = "return"
    /\ herr = "nil"
    /\ hreq.amount = Threshold + 5000
    /\ hinv.id = 2
    /\ invoices[1].amount = Threshold
    /\ published = <<EventOf(hinv)>>

\* The consumer holds a decoded approved or rejected result for invoice i.
Delivered(i) ==
    /\ cpc = "find_invoice"
    /\ cres.InvoiceID = i
    /\ cres.Status \in {StatusApproved, StatusRejected}

\* C17: whenever an approved or rejected result for a stored invoice was
\* delivered to the consumer, that invoice is eventually not pending,
\* whatever the order in which the results of different invoices come.
C17_EventualResolution ==
    \A i \in 1..MaxInvoices :
        (i \in InvoiceIDs /\ Delivered(i)) ~>
            (i \in InvoiceIDs /\ invoices[i].status # StatusPending)

\* C17 witness: the rejected result of the second invoice was processed to
\* the end while the first invoice, published before it, is still pending.
C17_Witness ==
    /\ cpc = "log_success"
    /\ cres.InvoiceID = 2
    /\ cres.Status = StatusRejected
    /\ invoices[2].status = StatusRejected
    /\ invoices[1].amount > Threshold
    /\ invoices[1].status = StatusPending
    /\ Len(published) = 2

\* The positions of ProcessTransactionResult that lead to the balance write.
LedgerPositions == {"find_account", "update_balance_find", "update_balance_store"}

\* C18: a consumer step taken for a message that is malformed, that names
\* no stored invoice or whose status is not approved changes no balance and
\* credits no invoice, and never enters the part of
\* ProcessTransactionResult that credits the account.
C18_OnlyApprovalsTouchLedger ==
    [][(/\ ConsumerStep
        /\ LET result == IF cpc = "read" THEN cres' ELSE cres
           IN \/ result.Status # StatusApproved
              \/ result.InvoiceID \notin InvoiceIDs) =>
            /\ accounts' = accounts
            /\ credits' = credits
            /\ cpc' \notin LedgerPositions]_vars

\* C18 witness: a rejected result was processed to the end for an invoice
\* whose account holds the 10,000 of an earlier Submit, and the balance is
\* still that.
C18_Witness ==
    /\ cpc = "log_success"
    /\ cres.Status = StatusRejected
    /\ invoices[cinv.id].status = StatusRejected
    /\ credits[cinv.id] = 0
    /\ accounts[cinv.account_id].balance = Threshold
    /\ hpc = "idle"

\* C19: no two stored accounts have the same API key, and a CreateAccount
\* whose lookup is made while its key has a stored account ends there with
\* ErrAccountDuplicateKey (or the repository's error), never reaching Save.
C19_APIKeyUnique ==
    /\ [](\A id1, id2 \in DOMAIN accounts :
            accounts[id1].api_key = accounts[id2].api_key => id1 = id2)
    /\ [][\A c \in Callers :
            (/\ CallerStep(c)
             /\ calls[c].op = "CreateAccount"
             /\ calls[c].pc = "find"
             /\ StoredWith(calls[c].key) # {}) =>
                /\ calls'[c].pc = "return"
                /\ calls'[c].err \in {"ErrAccountDuplicateKey", "db_error"}
                /\ accounts' = accounts]_vars

\* C20: the Auth middleware has invoked the next handler only for a request
\* whose X-API-KEY is not empty and names a stored account that
\* FindByAPIKey returned without an error; a request it has answered
\* otherwise got 401 and the next handler was not invoked; and no step of
\* the middleware changes an account.
C20_AuthenticationGate ==
    /\ [](\A c \in Callers :
            calls[c].next =>
                /\ calls[c].op = "Auth"
                /\ calls[c].key # ""
                /\ StoredWith(calls[c].key) # {}
                /\ calls[c].err = "nil"
                /\ calls[c].status # StatusUnauthorized)
    /\ [](\A c \in Callers :
            (calls[c].op = "Auth" /\ calls[c].pc = "return") =>
                /\ calls[c].next <=> (calls[c].key # "" /\ calls[c].err = "nil")
                /\ ~calls[c].next <=> (calls[c].status = StatusUnauthorized))
    /\ [][\A c \in Callers :
            (CallerStep(c) /\ "Auth" \in {calls[c].op, calls'[c].op}) =>
                accounts' = accounts]_vars

\* C20 witness: one request with the stored key was passed on to the next
\* handler while another, with a key that names no account, got 401.
C20_Witness ==
    \E c, d \in Callers :
        /\ calls[c].op = "Auth"
        /\ calls[c].pc = "return"
        /\ calls[c].next
        /\ calls[c].key = "key1"
        /\ calls[d].op = "Auth"
        /\ calls[d].pc = "return"
        /\ ~calls[d].next
        /\ calls[d].status = StatusUnauthorized
        /\ calls[d].err = "ErrAccountNotFound"

====
